---- MODULE Spec2Model ----
(***************************************************************************)
(* A model of the spatial aggregation of GISTEMP steps 3 and 5             *)
(* (src/steps/step3.py, src/steps/step5.py): sort_perm, zonav,             *)
(* iter_subbox_grid, subbox_to_box and annzon.                             *)
(*                                                                         *)
(* Numbers.  Temperatures and weights are Python floats in the source.     *)
(* Here they are fixed-point integers and the float division a / b is the  *)
(* integer division a \div b.  Proximity weights are in thousandths.       *)
(* Python lists are 0-based; sequences here are 1-based, so the element    *)
(* the code calls x[i] is x[i + 1]; index VALUES that the code stores      *)
(* (the permutation of sort_perm, band numbers) stay 0-based.              *)
(***************************************************************************)
EXTENDS Integers, Sequences, FiniteSets, TLC

VARIABLES
    \* sort_perm: the call's position, its argument and its result
    sp_pc, sp_a, sp_data, sp_indexes,
    \* the policy of series.anomalize for a calendar month without reference data
    anom_policy,
    \* zonav: the boxed_data stream (zv_n boxes, box k of kind zv_pat, zv_pos read)
    zv_pc, zv_n, zv_pat, zv_pos,
    \* zonav: band, zone: the next band / compound zone to build
    zv_band, zv_zone,
    \* zonav: avg, wt, lenz per band built; iord after sort_perm(lenz)
    zv_avg, zv_wt, zv_lenz, zv_iord,
    \* zonav: the number of series yielded and the last one
    zv_yielded, zv_last,
    \* zonav, history of the last unit built: box_length as read, the seed,
    \* the indexes handed to series.combine in order, whether the loop broke
    zv_lengths, zv_seed, zv_combined, zv_broke,
    \* iter_subbox_grid: the arguments (station_records as given, radius) and
    \* parameters.gridding_min_overlap
    sg_pc, sg_input, sg_radius, sg_min_overlap,
    \* iter_subbox_grid: station_records sorted (line 95); the region and the
    \* subbox within it to do next; n_empty_cells of the region
    sg_records, sg_region, sg_subbox, sg_n_empty,
    \* iter_subbox_grid: the cells yielded so far (their boxes) and the last one
    sg_boxes, sg_cell,
    \* iter_subbox_grid, history of the last cell: its contributors, its series
    \* before anomalize, the audit list, the calls of series.combine
    sg_contributors, sg_raw, sg_contributed, sg_calls,
    \* subbox_to_box: the cells given and parameters.subbox_min_valid
    sb_pc, sb_cells, sb_min_valid,
    \* subbox_to_box: the boxes yielded so far and the last quadruple
    sb_boxes, sb_last,
    \* subbox_to_box, history of the last box: its contributors sorted, its
    \* series and weight before anomalize, the audit list, the uids of the
    \* cells handed to series.combine in order
    sb_contributors, sb_raw, sb_contributed, sb_calls,
    \* annzon: the 16 zoned averages given, parameters.zone_annual_min_months
    \* and the alternate argument
    az_pc, az_zoned, az_min_months, az_alternate,
    \* annzon: the arrays data, wt and ann
    az_data, az_wt, az_ann

sortVars == <<sp_pc, sp_a, sp_data, sp_indexes>>
zonavVars == <<zv_pc, zv_n, zv_pat, zv_pos, zv_band, zv_zone, zv_avg, zv_wt,
               zv_lenz, zv_iord, zv_yielded, zv_last, zv_lengths, zv_seed,
               zv_combined, zv_broke>>
gridVars == <<sg_pc, sg_input, sg_radius, sg_min_overlap, sg_records, sg_region,
              sg_subbox, sg_n_empty, sg_boxes, sg_cell, sg_contributors, sg_raw,
              sg_contributed, sg_calls>>
boxVars == <<sb_pc, sb_cells, sb_min_valid, sb_boxes, sb_last, sb_contributors,
             sb_raw, sb_contributed, sb_calls>>
annzonVars == <<az_pc, az_zoned, az_min_months, az_alternate, az_data, az_wt,
                az_ann>>
vars == <<sortVars, anom_policy, zonavVars, gridVars, boxVars, annzonVars>>
\* What the actions of one function leave alone: the other functions' state.
restOfSort == <<anom_policy, zonavVars, gridVars, boxVars, annzonVars>>
restOfZonav == <<sortVars, gridVars, boxVars, annzonVars>>
restOfGrid == <<sortVars, zonavVars, boxVars, annzonVars>>
restOfBox == <<sortVars, zonavVars, gridVars, annzonVars>>
restOfAnnzon == <<sortVars, anom_policy, zonavVars, gridVars, boxVars>>

(***************************************************************************)
(* Bounds of the model.                                                    *)
(***************************************************************************)
MaxLen == 3
MaxVal == 3
\* Years of the timeline (meta.monm = 12 * NYears).
NYears == 1
\* Valid months of the longest box of the stream.
MaxBoxLen == 2
\* Boxes the stream may hold beyond the 80 of the partition.
StreamSlack == 2
\* Stations in the input of iter_subbox_grid.
MaxStations == 2
\* Valid months of the longest station record.
MaxRecLen == 2
\* Cells in the input of subbox_to_box.
MaxCells == 3

(***************************************************************************)
(* Each specification below drives one function of the program; the        *)
(* variables of the other functions then rest at these values.             *)
(***************************************************************************)
IdleSort ==
    /\ sp_pc = "idle"
    /\ sp_a = <<>>
    /\ sp_data = <<>>
    /\ sp_indexes = <<>>

IdleZonav ==
    /\ zv_pc = "idle"
    /\ zv_n = 0
    /\ zv_pat = <<>>
    /\ zv_pos = 0
    /\ zv_band = 0
    /\ zv_zone = 0
    /\ zv_avg = <<>>
    /\ zv_wt = <<>>
    /\ zv_lenz = <<>>
    /\ zv_iord = <<>>
    /\ zv_yielded = 0
    /\ zv_last = <<>>
    /\ zv_lengths = <<>>
    /\ zv_seed = -1
    /\ zv_combined = <<>>
    /\ zv_broke = FALSE

IdleGrid ==
    /\ sg_pc = "idle"
    /\ sg_input = <<>>
    /\ sg_radius = 0
    /\ sg_min_overlap = 0
    /\ sg_records = <<>>
    /\ sg_region = 0
    /\ sg_subbox = 0
    /\ sg_n_empty = 0
    /\ sg_boxes = <<>>
    /\ sg_cell = <<>>
    /\ sg_contributors = <<>>
    /\ sg_raw = <<>>
    /\ sg_contributed = <<>>
    /\ sg_calls = <<>>

IdleBox ==
    /\ sb_pc = "idle"
    /\ sb_cells = <<>>
    /\ sb_min_valid = 0
    /\ sb_boxes = <<>>
    /\ sb_last = <<>>
    /\ sb_contributors = <<>>
    /\ sb_raw = <<>>
    /\ sb_contributed = <<>>
    /\ sb_calls = <<>>

IdleAnnzon ==
    /\ az_pc = "idle"
    /\ az_zoned = <<>>
    /\ az_min_months = 0
    /\ az_alternate = <<>>
    /\ az_data = <<>>
    /\ az_wt = <<>>
    /\ az_ann = <<>>

(***************************************************************************)
(* Helpers on sequences.                                                   *)
(***************************************************************************)
RECURSIVE SeqsUpTo(_, _)
SeqsUpTo(S, n) ==
    IF n = 0 THEN {<<>>}
    ELSE LET shorter == SeqsUpTo(S, n - 1)
         IN  shorter \cup {Append(s, x) : s \in {t \in shorter : Len(t) = n - 1}, x \in S}

RECURSIVE SumSeq(_)
SumSeq(s) == IF s = <<>> THEN 0 ELSE s[1] + SumSeq(Tail(s))

Range(s) == {s[i] : i \in 1..Len(s)}

(***************************************************************************)
(* sort_perm (step5.py 388-399).                                           *)
(*   z = list(zip(a, range(len(a))))                                       *)
(*   z = sorted(z, key=lambda x: x[1] - x[0])                              *)
(*   data, indexes = zip(star z)                                            *)
(* The key of the pair (a[i], i) is i - a[i].  sorted() is stable: pairs   *)
(* with equal keys keep their input order.  With an empty list the zip     *)
(* yields nothing and the unpacking into two names raises ValueError.      *)
(***************************************************************************)
SortKey(a, i) == (i - 1) - a[i]

\* The place (1-based) of input element i in the stably sorted list.
SortPlace(a, i) ==
    1 + Cardinality({j \in 1..Len(a) :
            \/ SortKey(a, j) < SortKey(a, i)
            \/ SortKey(a, j) = SortKey(a, i) /\ j < i})

\* The 1-based input position that lands at place p.
SortSource(a, p) == CHOOSE i \in 1..Len(a) : SortPlace(a, i) = p

\* sort_perm(a): the pair (data, indexes); indexes holds 0-based indexes.
sort_perm(a) ==
    [data    |-> [p \in 1..Len(a) |-> a[SortSource(a, p)]],
     indexes |-> [p \in 1..Len(a) |-> SortSource(a, p) - 1]]

(***************************************************************************)
(* Specification SpecSort: sort_perm applied to every short list.          *)
(***************************************************************************)
SortInit ==
    /\ sp_pc = "call"
    /\ sp_a \in SeqsUpTo(0..MaxVal, MaxLen)
    /\ sp_data = <<>>
    /\ sp_indexes = <<>>
    /\ anom_policy = "keep"
    /\ IdleZonav
    /\ IdleGrid
    /\ IdleBox
    /\ IdleAnnzon

\* A call that returns (len(a) > 0).
SortReturn ==
    /\ sp_pc = "call"
    /\ Len(sp_a) > 0
    /\ sp_pc' = "returned"
    /\ sp_data' = sort_perm(sp_a).data
    /\ sp_indexes' = sort_perm(sp_a).indexes
    /\ UNCHANGED <<sp_a, restOfSort>>

\* A call on the empty list: unpacking the empty zip raises ValueError.
SortRaise ==
    /\ sp_pc = "call"
    /\ Len(sp_a) = 0
    /\ sp_pc' = "raised"
    /\ UNCHANGED <<sp_a, sp_data, sp_indexes, restOfSort>>

SortNext == SortReturn \/ SortRaise

SpecSort == SortInit /\ [][SortNext]_vars

(***************************************************************************)
(* C1.  For every input list a of non-negative integers sort_perm(a)       *)
(* returns (sorted, indexes) with sorted in non-increasing order, equal    *)
(* values in their original index order, indexes a permutation of          *)
(* 0..len(a)-1 with a[indexes[x]] = sorted[x], and a not mutated.          *)
(***************************************************************************)
IsDescending(s) == \A x \in 1..Len(s) - 1 : s[x] >= s[x + 1]

IsStableOrder(s, idx) ==
    \A x \in 1..Len(s) - 1 : s[x] = s[x + 1] => idx[x] < idx[x + 1]

IsPermutation(idx, n) ==
    /\ Len(idx) = n
    /\ Range(idx) = 0..(n - 1)

C1_SortPermContract ==
    sp_pc = "returned" =>
        /\ IsDescending(sp_data)
        /\ IsStableOrder(sp_data, sp_indexes)
        /\ IsPermutation(sp_indexes, Len(sp_a))
        /\ \A x \in 1..Len(sp_a) : sp_a[sp_indexes[x] + 1] = sp_data[x]

(***************************************************************************)
(* Collaborators that are not part of the two source files: giss_data      *)
(* (MISSING, valid), series.combine and series.anomalize.  They are        *)
(* modelled from their contracts in the specification (sections 4.2, 4.3). *)
(***************************************************************************)
MISSING == 9999

valid(v) == v # MISSING

CountValid(s) == Cardinality({i \in 1..Len(s) : valid(s[i])})

ValidMonths(s) == {i \in 1..Len(s) : valid(s[i])}

RECURSIVE SumAt(_, _)
SumAt(s, I) ==
    IF I = {} THEN 0
    ELSE LET i == CHOOSE x \in I : TRUE IN s[i] + SumAt(s, I \ {i})

\* The number of months at which both series hold data, over the whole
\* series (4.3: "overlap is measured over the full series, not per month").
Overlap(composite, new) ==
    Cardinality({i \in 1..Len(new) : valid(composite[i]) /\ valid(new[i])})

\* series.combine(composite, weight, new, new_weight, min_overlap).  The code
\* mutates composite and weight in place and returns the 12 counts of data
\* combined per calendar month; here the three come back as a record.
\* new_weight is a series (callers with a scalar weight pass it spread out).
\* Insufficient overlap: new is ignored entirely (fail closed).
Combine(composite, weight, new, new_weight, min_overlap) ==
    IF Overlap(composite, new) < min_overlap
    THEN [series |-> composite, weight |-> weight, months |-> [m \in 1..12 |-> 0]]
    ELSE [series |-> [i \in 1..Len(composite) |->
                        IF ~valid(new[i]) THEN composite[i]
                        ELSE IF valid(composite[i])
                             THEN (weight[i] * composite[i] + new_weight[i] * new[i])
                                     \div (weight[i] + new_weight[i])
                             ELSE new[i]],
          weight |-> [i \in 1..Len(composite) |->
                        IF ~valid(new[i]) THEN weight[i]
                        ELSE IF valid(composite[i]) THEN weight[i] + new_weight[i]
                             ELSE new_weight[i]],
          months |-> [m \in 1..12 |->
                        Cardinality({i \in 1..Len(new) :
                            (i - 1) % 12 = m - 1 /\ valid(new[i])})]]

\* The reference period of series.anomalize, in years of the series: the
\* first year.
RefYears == {1}

RefData(s, m) ==
    {i \in 1..Len(s) : /\ (i - 1) % 12 = m - 1
                       /\ ((i - 1) \div 12) + 1 \in RefYears
                       /\ valid(s[i])}

\* series.anomalize(data, reference_period, base_year): every valid value has
\* the mean of its calendar month over the reference period subtracted.  A
\* calendar month without reference data is left as it is ("keep") or set to
\* MISSING ("missing"): the specification leaves that policy open.
Anomalize(s, policy) ==
    [i \in 1..Len(s) |->
        LET m == ((i - 1) % 12) + 1
            ref == RefData(s, m)
        IN  IF ~valid(s[i]) THEN MISSING
            ELSE IF ref = {} THEN (IF policy = "keep" THEN s[i] ELSE MISSING)
            ELSE s[i] - (SumAt(s, ref) \div Cardinality(ref))]

AnomPolicies == {"keep", "missing"}

(***************************************************************************)
(* zones() (step5.py 402-430).                                             *)
(***************************************************************************)
\* (A variant with the last band one box short.)
boxes_in_band_short == <<4, 8, 12, 16, 16, 12, 8, 3>>

boxes_in_band == <<4, 8, 12, 16, 16, 12, 8, 4>>
\* (A variant whose northern mid-latitudes reach into band 3.)
band_in_zone_wide ==
    <<{0, 1, 2}, {3, 4}, {5, 6, 7}, {1, 2, 3}, {5, 6}, 0..3, 4..7, 0..7>>

band_in_zone ==
    LET N  == 0..3
        G  == 0..7
        S  == G \ N
        T  == {3, 4}
        NM == {1, 2}
        SM == {5, 6}
    IN  <<N \ T, T, S \ T, NM, SM, N, S, G>>

bands == Len(boxes_in_band)

\* parameters.box_min_overlap
box_min_overlap == 1

(***************************************************************************)
(* The boxed_data stream that zonav reads.  Box k of the stream (from 0)   *)
(* has the kind zv_pat gives it, cyclically; a box of kind n has data in   *)
(* its first n months, so that its length (ngood of subbox_to_box, the     *)
(* count of its valid months) is n.  Weights are in thousandths.           *)
(***************************************************************************)
monm == 12 * NYears

PatLen == MaxBoxLen + 1

BoxOfKind(n) ==
    [series |-> [i \in 1..monm |-> IF i <= n THEN 100 * n ELSE MISSING],
     weight |-> [i \in 1..monm |-> IF i <= n THEN 1000 ELSE 0],
     length |-> n]

StreamBox(pat, k) == BoxOfKind(pat[(k % Len(pat)) + 1])

(***************************************************************************)
(* zonav, the band loop (step5.py 300-350).                                *)
(***************************************************************************)
\* Lines 332-346: the loop "for n in range(1, boxes_in_band[band])" from n on.
\* acc holds avg[band] and wt[band]; sp is sort_perm(box_length); used
\* collects the indexes nr combined.  (The one-element sets only bind a
\* computed value to a name.)
RECURSIVE BandCombine(_, _, _, _, _)
BandCombine(acc, boxes, sp, n, used) ==
    IF n >= Len(boxes)
    THEN [avg |-> acc.series, wt |-> acc.weight, combined |-> used, broke |-> FALSE]
    ELSE IF sp.data[n + 1] = 0
    THEN [avg |-> acc.series, wt |-> acc.weight, combined |-> used, broke |-> TRUE]
    ELSE LET nr == sp.indexes[n + 1]
         IN  CHOOSE r \in {BandCombine(c, boxes, sp, n + 1, Append(used, nr)) :
                            c \in {Combine(acc.series, acc.weight, boxes[nr + 1].series,
                                           boxes[nr + 1].weight, box_min_overlap)}} : TRUE

\* Lines 316-346: the band's series before it is anomalized.
BuildBand(boxes) ==
    LET box_length   == [b \in 1..Len(boxes) |-> boxes[b].length]
        total_length == SumSeq(box_length)
    IN  IF total_length = 0
        THEN [avg |-> [i \in 1..monm |-> MISSING], wt |-> [i \in 1..monm |-> 0],
              seed |-> -1, combined |-> <<>>, broke |-> FALSE]
        ELSE CHOOSE b \in
                {LET nr == sp.indexes[1]
                     r  == BandCombine([series |-> boxes[nr + 1].series,
                                        weight |-> boxes[nr + 1].weight],
                                       boxes, sp, 1, <<>>)
                 IN  [avg |-> r.avg, wt |-> r.wt, seed |-> nr,
                      combined |-> r.combined, broke |-> r.broke] :
                 sp \in {sort_perm(box_length)}} : TRUE

(***************************************************************************)
(* zonav, the compound zones (step5.py 364-385).                           *)
(***************************************************************************)
\* Lines 367-373: j1, the first place of iord that holds a band of the zone.
\* (iord is a permutation of the bands and no zone is empty, so the "else"
\* of the loop, which raises, is never taken.)
FirstInZone(iord, zone) ==
    CHOOSE j1 \in 0..(bands - 1) :
        /\ iord[j1 + 1] \in band_in_zone[zone + 1]
        /\ \A j \in 0..(j1 - 1) : iord[j + 1] \notin band_in_zone[zone + 1]

\* Lines 379-383: the loop "for j in range(j1 + 1, bands)" from j on; acc
\* holds avgg and wtg.
RECURSIVE ZoneCombine(_, _, _, _, _, _, _)
ZoneCombine(acc, zone, iord, avg, wt, j, used) ==
    IF j >= bands
    THEN [avg |-> acc.series, wt |-> acc.weight, combined |-> used]
    ELSE LET band == iord[j + 1]
         IN  IF band \notin band_in_zone[zone + 1]
             THEN ZoneCombine(acc, zone, iord, avg, wt, j + 1, used)
             ELSE CHOOSE r \in {ZoneCombine(c, zone, iord, avg, wt, j + 1,
                                            Append(used, band)) :
                                c \in {Combine(acc.series, acc.weight, avg[band + 1],
                                               wt[band + 1], box_min_overlap)}} : TRUE

\* Lines 366-383: the zone's series before it is anomalized.
BuildZone(zone, iord, avg, wt) ==
    LET j1   == FirstInZone(iord, zone)
        band == iord[j1 + 1]
        r    == ZoneCombine([series |-> avg[band + 1], weight |-> wt[band + 1]],
                            zone, iord, avg, wt, j1 + 1, <<>>)
    IN  [avg |-> r.avg, wt |-> r.wt, seed |-> band, combined |-> r.combined]

\* The sizes of the streams tried: around the 80 boxes of the partition, and
\* streams that end inside the first band.
StreamSizes ==
    LET total == SumSeq(boxes_in_band)
    IN  (0..StreamSlack) \cup ((total - StreamSlack)..(total + StreamSlack))

(***************************************************************************)
(* Specification SpecZonav: zonav run on a stream of zv_n boxes.  One      *)
(* action is one resumption of the generator, up to its next yield or its  *)
(* end.                                                                    *)
(***************************************************************************)
ZonavInit ==
    /\ IdleSort
    /\ IdleGrid
    /\ IdleBox
    /\ IdleAnnzon
    /\ anom_policy \in AnomPolicies
    /\ zv_pc = "bands"
    /\ zv_n \in StreamSizes
    /\ zv_pat \in [1..PatLen -> 0..MaxBoxLen]
    /\ zv_pos = 0
    /\ zv_band = 0
    /\ zv_zone = 0
    /\ zv_avg = <<>>
    /\ zv_wt = <<>>
    /\ zv_lenz = <<>>
    /\ zv_iord = <<>>
    /\ zv_yielded = 0
    /\ zv_last = <<>>
    /\ zv_lengths = <<>>
    /\ zv_seed = -1
    /\ zv_combined = <<>>
    /\ zv_broke = FALSE

\* The stream still holds n boxes: n calls of next(boxed_data) succeed.
StreamHolds(n) == zv_n - zv_pos >= n

\* Lines 300-350, one band: its boxes are read, combined, anomalized, yielded.
ZonavBand ==
    /\ zv_pc = "bands"
    /\ zv_band < bands
    /\ StreamHolds(boxes_in_band[zv_band + 1])
    /\ LET cnt   == boxes_in_band[zv_band + 1]
           boxes == [b \in 1..cnt |-> StreamBox(zv_pat, zv_pos + b - 1)]
       IN  \E r \in {BuildBand(boxes)} : \E a \in {Anomalize(r.avg, anom_policy)} :
           /\ zv_avg' = Append(zv_avg, a)
           /\ zv_wt' = Append(zv_wt, r.wt)
           /\ zv_lenz' = Append(zv_lenz, CountValid(a))
           /\ zv_last' = <<a, r.wt>>
           /\ zv_lengths' = [b \in 1..cnt |-> boxes[b].length]
           /\ zv_seed' = r.seed
           /\ zv_combined' = r.combined
           /\ zv_broke' = r.broke
           /\ zv_pos' = zv_pos + cnt
    /\ zv_band' = zv_band + 1
    /\ zv_yielded' = zv_yielded + 1
    /\ UNCHANGED <<zv_pc, zv_n, zv_pat, zv_zone, zv_iord, anom_policy, restOfZonav>>

\* Line 313 with the stream at its end inside a band: next() raises
\* StopIteration in the generator, which ends it (as an error from Python
\* 3.7 on) without a yield.  The boxes that were left have been read.
ZonavStreamEnds ==
    /\ zv_pc = "bands"
    /\ zv_band < bands
    /\ ~StreamHolds(boxes_in_band[zv_band + 1])
    /\ zv_pos' = zv_n
    /\ zv_pc' = "stopped"
    /\ UNCHANGED <<zv_n, zv_pat, zv_band, zv_zone, zv_avg, zv_wt, zv_lenz, zv_iord,
                   zv_yielded, zv_last, zv_lengths, zv_seed, zv_combined, zv_broke,
                   anom_policy, restOfZonav>>

\* Lines 355-357: after the 8 bands the stream yields another box: the
\* assertion "Too many boxes found" fails.
ZonavTooMany ==
    /\ zv_pc = "bands"
    /\ zv_band = bands
    /\ StreamHolds(1)
    /\ zv_pos' = zv_pos + 1
    /\ zv_pc' = "failed"
    /\ UNCHANGED <<zv_n, zv_pat, zv_band, zv_zone, zv_avg, zv_wt, zv_lenz, zv_iord,
                   zv_yielded, zv_last, zv_lengths, zv_seed, zv_combined, zv_broke,
                   anom_policy, restOfZonav>>

\* The yield of one compound zone (lines 366-385).
YieldZone(zone, iord) ==
    \E r \in {BuildZone(zone, iord, zv_avg, zv_wt)} :
        /\ zv_last' = <<Anomalize(r.avg, anom_policy), r.wt>>
        /\ zv_seed' = r.seed
        /\ zv_combined' = r.combined
        /\ zv_broke' = FALSE
        /\ zv_zone' = zone + 1
        /\ zv_yielded' = zv_yielded + 1
        /\ zv_iord' = iord

\* Lines 355-385: the stream is exhausted; lenz is sorted and the first
\* compound zone is built and yielded.
ZonavFirstZone ==
    /\ zv_pc = "bands"
    /\ zv_band = bands
    /\ ~StreamHolds(1)
    /\ zv_pc' = "zones"
    /\ YieldZone(0, sort_perm(zv_lenz).indexes)
    /\ UNCHANGED <<zv_n, zv_pat, zv_pos, zv_band, zv_avg, zv_wt, zv_lenz, zv_lengths,
                   anom_policy, restOfZonav>>

\* Lines 365-385: the next compound zone.
ZonavZone ==
    /\ zv_pc = "zones"
    /\ zv_zone < Len(band_in_zone)
    /\ YieldZone(zv_zone, zv_iord)
    /\ UNCHANGED <<zv_pc, zv_n, zv_pat, zv_pos, zv_band, zv_avg, zv_wt, zv_lenz,
                   zv_lengths, anom_policy, restOfZonav>>

\* The loop over the zones is over: the generator returns.
ZonavReturn ==
    /\ zv_pc = "zones"
    /\ zv_zone = Len(band_in_zone)
    /\ zv_pc' = "done"
    /\ UNCHANGED <<zv_n, zv_pat, zv_pos, zv_band, zv_zone, zv_avg, zv_wt, zv_lenz,
                   zv_iord, zv_yielded, zv_last, zv_lengths, zv_seed, zv_combined,
                   zv_broke, anom_policy, restOfZonav>>

ZonavNext ==
    \/ ZonavBand
    \/ ZonavStreamEnds
    \/ ZonavTooMany
    \/ ZonavFirstZone
    \/ ZonavZone
    \/ ZonavReturn

SpecZonav == ZonavInit /\ [][ZonavNext]_vars

(***************************************************************************)
(* C2.  zonav yields exactly 16 series, 8 bands and then 8 compound zones, *)
(* if and only if the stream delivers exactly 80 boxes, read in groups of  *)
(* 4,8,12,16,16,12,8,4.  With a box left after the 8 bands zonav fails and *)
(* yields no compound zone; with a stream that ends before 80 boxes it     *)
(* yields no band for the incomplete group and no compound zone.           *)
(***************************************************************************)
C2_Groups == <<4, 8, 12, 16, 16, 12, 8, 4>>

C2_Read(b) == SumSeq(SubSeq(C2_Groups, 1, b))

\* The groups a stream of n boxes fills.
C2_CompleteGroups(n) ==
    Cardinality({b \in 1..Len(C2_Groups) : C2_Read(b) <= n})

ZonavEnded == zv_pc \in {"done", "stopped", "failed"}

C2_SixteenIffEighty ==
    zv_pc # "idle" =>
        \* bands first, each after its own group of boxes; zones after all bands
        /\ zv_pc = "bands" => zv_yielded = zv_band /\ zv_pos = C2_Read(zv_band)
        /\ zv_pc \in {"zones", "done"} =>
              zv_band = 8 /\ zv_pos = 80 /\ zv_yielded = 8 + zv_zone
        /\ zv_yielded <= 16
        /\ zv_pc = "done" => zv_yielded = 16
        \* 16 series if and only if 80 boxes
        /\ zv_yielded = 16 => zv_n = 80
        /\ ZonavEnded /\ zv_n = 80 => zv_pc = "done"
        \* a box too many: a failure after the 8 bands, no compound zone
        /\ zv_n > 80 => zv_yielded <= 8
        /\ ZonavEnded /\ zv_n > 80 => zv_pc = "failed" /\ zv_yielded = 8
        \* a stream that ends early: the complete groups only, no compound zone
        /\ zv_n < 80 => zv_yielded <= C2_CompleteGroups(zv_n)
        /\ ZonavEnded /\ zv_n < 80 =>
              zv_pc = "stopped" /\ zv_yielded = C2_CompleteGroups(zv_n)

C2_AllSixteenYielded == zv_pc = "done" /\ zv_n = 80 /\ zv_yielded = 16

(***************************************************************************)
(* C8.  For every band whose boxes have a total valid length above zero,   *)
(* the accumulator is seeded with a box whose length is maximal among the  *)
(* boxes of the band.                                                      *)
(***************************************************************************)
\* The last series yielded is a band: the history is that band's.
LastWasBand == zv_band > 0 /\ zv_yielded = zv_band

MaxOf(s) == CHOOSE x \in Range(s) : \A y \in Range(s) : y <= x

C8_SeedIsLongestBox ==
    LastWasBand /\ SumSeq(zv_lengths) > 0 =>
        /\ zv_seed \in 0..(Len(zv_lengths) - 1)
        /\ zv_lengths[zv_seed + 1] = MaxOf(zv_lengths)

(***************************************************************************)
(* C9.  When the band loop is over, by its end or by the break at a        *)
(* zero-length entry, every box of the band with a non-zero length is the  *)
(* seed or was handed to the combiner, exactly once.                       *)
(***************************************************************************)
TimesIn(s, x) == Cardinality({i \in 1..Len(s) : s[i] = x})

C9_EveryNonEmptyBoxUsedOnce ==
    LastWasBand /\ SumSeq(zv_lengths) > 0 =>
        \A b \in 0..(Len(zv_lengths) - 1) :
            zv_lengths[b + 1] > 0 =>
                TimesIn(<<zv_seed>> \o zv_combined, b) = 1

(***************************************************************************)
(* incircle (step3.py 27-79).  Angles are whole degrees, the trigonometric *)
(* functions are tabulated in thousandths at the multiples of 30 degrees,  *)
(* and products of thousandths are rounded to the nearest thousandth.      *)
(***************************************************************************)
SinTable(deg) ==
    CASE deg = 0 -> 0
      [] deg = 30 -> 500
      [] deg = 60 -> 866
      [] deg = 90 -> 1000
      [] deg = 120 -> 866
      [] deg = 150 -> 500
      [] deg = 180 -> 0

\* math.sin(deg * math.pi / 180) and math.cos(deg * math.pi / 180)
Sin(deg) == IF deg < 0 THEN 0 - SinTable(0 - deg) ELSE SinTable(deg)

Cos(deg) ==
    LET a == IF deg < 0 THEN 0 - deg ELSE deg
    IN  IF a <= 90 THEN SinTable(90 - a) ELSE 0 - SinTable(a - 90)

\* The product of two numbers in thousandths, in thousandths.
Times(x, y) == (x * y + 500) \div 1000

\* math.sqrt of a natural number, rounded down, by bisection.
RECURSIVE SqrtBetween(_, _, _)
SqrtBetween(n, lo, hi) ==
    IF lo >= hi THEN lo
    ELSE LET mid == (lo + hi + 1) \div 2
         IN  IF mid * mid <= n THEN SqrtBetween(n, mid, hi)
             ELSE SqrtBetween(n, lo, mid - 1)

\* (A chord of the unit sphere is at most 2, i.e. 2000 thousandths.)
Sqrt(n) == SqrtBetween(n, 0, 2 * 1000)

\* earth.radius, in km
earth_radius == 6375

\* Line 103: arc = radius / earth.radius, in thousandths of a radian.
ArcOf(radius) == (radius * 1000) \div earth_radius

\* math.cos(arc), tabulated at the arcs of the radii tried (45 and 75 degrees).
CosArc(arc) ==
    CASE arc = 785 -> 707
      [] arc = 1309 -> 259

\* Lines 72-74: the cosine of the angle between the station and the point.
CosD(s_lat, s_lon, lat, lon) ==
    Times(Sin(s_lat), Sin(lat))
        + Times(Times(Cos(s_lat), Cos(lat)),
                Times(Cos(s_lon), Cos(lon)) + Times(Sin(s_lon), Sin(lon)))

\* Line 76: the station is within the arc.
InCircle(record, arc, lat, lon) == CosD(record.lat, record.lon, lat, lon) > CosArc(arc)

\* Lines 77-78: weight = 1 - d / arc with d the chord length.
CircleWeight(record, arc, lat, lon) ==
    LET d == Sqrt(2 * (1000 - CosD(record.lat, record.lon, lat, lon)) * 1000)
    IN  1000 - (d * 1000) \div arc

\* Keeps the elements of a sequence that satisfy Test, in order.
RECURSIVE SelectIndexes(_, _, _)
SelectIndexes(n, k, Keep) ==
    IF k > n THEN <<>>
    ELSE IF k \in Keep THEN <<k>> \o SelectIndexes(n, k + 1, Keep)
    ELSE SelectIndexes(n, k + 1, Keep)

\* incircle(iterable, arc, lat, lon): the (record, weight) pairs of the
\* records within the arc, in the order of iterable.
incircle(iterable, arc, lat, lon) ==
    LET keep == {k \in 1..Len(iterable) : InCircle(iterable[k], arc, lat, lon)}
        idx  == SelectIndexes(Len(iterable), 1, keep)
    IN  [x \in 1..Len(idx) |->
            [record |-> iterable[idx[x]],
             wt     |-> CircleWeight(iterable[idx[x]], arc, lat, lon)]]

(***************************************************************************)
(* The geometry collaborator eqarea (gridsub, centre), not part of the     *)
(* source files: two regions of two subboxes each, given with the centre   *)
(* eqarea.centre computes for them.  A box is (south, north, west, east).  *)
(***************************************************************************)
gridsub ==
    << [box |-> <<0, 90, -180, 180>>,
        subboxes |-> << [box |-> <<82, 90, -180, 180>>, centre |-> <<86, 30>>],
                        [box |-> <<0, 82, -180, 180>>, centre |-> <<60, 0>>] >>],
       [box |-> <<-90, 0, -180, 180>>,
        subboxes |-> << [box |-> <<-82, 0, -180, 180>>, centre |-> <<0, 0>>],
                        [box |-> <<-90, -82, -180, 180>>, centre |-> <<-86, 30>>] >>] >>

\* Lines 115-120: the centre of the subbox, snapped to the pole.
SnappedCentre(subbox) ==
    LET centre == subbox.centre
    IN  IF centre[1] >= 84 THEN <<90, 0>>
        ELSE IF centre[1] <= -84 THEN <<-90, 0>>
        ELSE centre

(***************************************************************************)
(* The station records given to iter_subbox_grid (giss_data.Series).  A    *)
(* record holds its data from its first to its last valid month:           *)
(* series, rel_first_month, rel_last_month, and good_count, the number of  *)
(* its valid values.  The records tried lie at one of two sites and hold   *)
(* 1..MaxRecLen months of data from one of the first three months on.      *)
(***************************************************************************)
StationSites == {<<60, 0>>, <<30, 0>>}

FirstMonths == {1, 2, 3}

StationShapes ==
    {[lat |-> site[1], lon |-> site[2], rel_first_month |-> f,
      rel_last_month |-> f + n - 1, good_count |-> n,
      series |-> [i \in 1..n |-> 100 * f + 10 * i]] :
        site \in StationSites, f \in FirstMonths, n \in 1..MaxRecLen}

\* The record of shape sh given as the u-th of the input: uid is u.
StationRecord(sh, u) ==
    [uid |-> u, lat |-> sh.lat, lon |-> sh.lon, series |-> sh.series,
     rel_first_month |-> sh.rel_first_month, rel_last_month |-> sh.rel_last_month,
     good_count |-> sh.good_count]

StationInputs ==
    {[u \in 1..Len(shapes) |-> StationRecord(shapes[u], u)] :
        shapes \in SeqsUpTo(StationShapes, MaxStations)}

\* The values of parameters.gridding_min_overlap tried.
GriddingMinOverlaps == {0, 1, 2}

\* The radii tried, in km (an arc of 45 degrees).
Radii == {5007}

(***************************************************************************)
(* iter_subbox_grid (step3.py 82-217).                                     *)
(***************************************************************************)
\* (A variant that puts records of equal count in reverse order.)
GoodCountPlace_reversed(records, i) ==
    1 + Cardinality({j \in 1..Len(records) :
            \/ records[j].good_count > records[i].good_count
            \/ records[j].good_count = records[i].good_count /\ j > i})

\* Line 95: sorted(station_records, key=good_count, reverse=True); the sort
\* is stable, also with reverse=True.
GoodCountPlace(records, i) ==
    1 + Cardinality({j \in 1..Len(records) :
            \/ records[j].good_count > records[i].good_count
            \/ records[j].good_count = records[i].good_count /\ j < i})

SortByGoodCount(records) ==
    [p \in 1..Len(records) |->
        records[CHOOSE i \in 1..Len(records) : GoodCountPlace(records, i) = p]]

\* Lines 131, 151-154 and 174-176: the record's data at its place in a
\* series of max_months months.
Placed(record, max_months) ==
    [i \in 1..max_months |->
        IF i >= record.rel_first_month /\ i <= record.rel_last_month
        THEN record.series[i - record.rel_first_month + 1]
        ELSE MISSING]

\* Lines 168-169: the 12 digits that tell which calendar months hold data.
UsedMonths(series) ==
    [m \in 1..12 |->
        IF \E i \in 1..Len(series) : (i - 1) % 12 = m - 1 /\ valid(series[i])
        THEN 1 ELSE 0]

\* Line 186: the 12 digits of the months that series.combine reports.
MonthDigits(station_months) ==
    [m \in 1..12 |-> IF station_months[m] # 0 THEN 1 ELSE 0]

ZeroDigits == [m \in 1..12 |-> 0]

Spread(wt, n) == [i \in 1..n |-> wt]

MaxOfTwo(x, y) == IF x >= y THEN x ELSE y

\* (A variant without the "continue" of line 184: a station that added
\* nothing is counted and logged like one that did.)
GridAddStation_counted(st, c, max_months, min_overlap) ==
    LET new == Placed(c.record, max_months)
    IN  CHOOSE r \in
          {LET n_good_months == SumSeq(cmb.months)
                call == [uid |-> c.record.uid, wt |-> c.wt, months |-> cmb.months]
            IN  [st EXCEPT !.series = cmb.series, !.weight = cmb.weight,
                           !.total_good_months = @ + n_good_months,
                           !.total_stations = @ + 1,
                           !.contributed = Append(@, <<c.record.uid, c.wt,
                                                       MonthDigits(cmb.months)>>),
                           !.max_weight = MaxOfTwo(@, c.wt),
                           !.calls = Append(@, call)] :
            cmb \in {Combine(st.series, st.weight, new, Spread(c.wt, max_months),
                             min_overlap)}} : TRUE

\* (A variant that adds the station's good_count to the total whatever
\* the combiner reports.)
GridAddStation_allmonths(st, c, max_months, min_overlap) ==
    LET new == Placed(c.record, max_months)
    IN  CHOOSE r \in
          {LET n_good_months == SumSeq(cmb.months)
                call == [uid |-> c.record.uid, wt |-> c.wt, months |-> cmb.months]
            IN  IF n_good_months = 0
                THEN [st EXCEPT !.series = cmb.series, !.weight = cmb.weight,
                                !.total_good_months = @ + c.record.good_count,
                                !.contributed = Append(@, <<c.record.uid, 0, ZeroDigits>>),
                                !.calls = Append(@, call)]
                ELSE [st EXCEPT !.series = cmb.series, !.weight = cmb.weight,
                                !.total_good_months = @ + c.record.good_count,
                                !.total_stations = @ + 1,
                                !.contributed = Append(@, <<c.record.uid, c.wt,
                                                            MonthDigits(cmb.months)>>),
                                !.max_weight = MaxOfTwo(@, c.wt),
                                !.calls = Append(@, call)] :
            cmb \in {Combine(st.series, st.weight, new, Spread(c.wt, max_months),
                             min_overlap)}} : TRUE

\* (A variant that takes the weight of every station into max_weight.)
GridAddStation_maxall(st, c, max_months, min_overlap) ==
    LET new == Placed(c.record, max_months)
    IN  CHOOSE r \in
          {LET n_good_months == SumSeq(cmb.months)
                call == [uid |-> c.record.uid, wt |-> c.wt, months |-> cmb.months]
            IN  IF n_good_months = 0
                THEN [st EXCEPT !.series = cmb.series, !.weight = cmb.weight,
                                !.contributed = Append(@, <<c.record.uid, 0, ZeroDigits>>),
                                !.max_weight = MaxOfTwo(@, c.wt),
                                !.calls = Append(@, call)]
                ELSE [st EXCEPT !.series = cmb.series, !.weight = cmb.weight,
                                !.total_good_months = @ + n_good_months,
                                !.total_stations = @ + 1,
                                !.contributed = Append(@, <<c.record.uid, c.wt,
                                                            MonthDigits(cmb.months)>>),
                                !.max_weight = MaxOfTwo(@, c.wt),
                                !.calls = Append(@, call)] :
            cmb \in {Combine(st.series, st.weight, new, Spread(c.wt, max_months),
                             min_overlap)}} : TRUE

\* Lines 173-189: one pass of the loop over contributors[1:], for the
\* contributor c, on the state st of the cell.
GridAddStation(st, c, max_months, min_overlap) ==
    LET new == Placed(c.record, max_months)
    IN  CHOOSE r \in
          {LET n_good_months == SumSeq(cmb.months)
                call == [uid |-> c.record.uid, wt |-> c.wt, months |-> cmb.months]
            IN  IF n_good_months = 0
                THEN [st EXCEPT !.series = cmb.series, !.weight = cmb.weight,
                                !.contributed = Append(@, <<c.record.uid, 0, ZeroDigits>>),
                                !.calls = Append(@, call)]
                ELSE [st EXCEPT !.series = cmb.series, !.weight = cmb.weight,
                                !.total_good_months = @ + n_good_months,
                                !.total_stations = @ + 1,
                                !.contributed = Append(@, <<c.record.uid, c.wt,
                                                            MonthDigits(cmb.months)>>),
                                !.max_weight = MaxOfTwo(@, c.wt),
                                !.calls = Append(@, call)] :
            cmb \in {Combine(st.series, st.weight, new, Spread(c.wt, max_months),
                             min_overlap)}} : TRUE

RECURSIVE GridAddStations(_, _, _, _, _)
GridAddStations(st, contributors, k, max_months, min_overlap) ==
    IF k > Len(contributors) THEN st
    ELSE CHOOSE r \in
            {GridAddStations(nxt, contributors, k + 1, max_months, min_overlap) :
                nxt \in {GridAddStation(st, contributors[k], max_months, min_overlap)}} :
            TRUE

\* Lines 145-189: the cell's state after all its contributors.
GridCombineCell(contributors, max_months, min_overlap) ==
    LET record == contributors[1].record
        wt     == contributors[1].wt
        subbox_series == Placed(record, max_months)
        st0 == [series |-> subbox_series,
                weight |-> [i \in 1..max_months |->
                               IF valid(subbox_series[i]) THEN wt ELSE 0],
                total_good_months |-> record.good_count,
                total_stations |-> 1,
                max_weight |-> wt,
                contributed |-> << <<record.uid, wt, UsedMonths(subbox_series)>> >>,
                calls |-> <<>>]
    IN  GridAddStations(st0, contributors, 2, max_months, min_overlap)

(***************************************************************************)
(* Specification SpecGrid: iter_subbox_grid over the subboxes of gridsub.  *)
(* One action is one resumption of the generator.                          *)
(***************************************************************************)
GridInit ==
    /\ IdleSort
    /\ IdleZonav
    /\ IdleBox
    /\ IdleAnnzon
    /\ anom_policy = "keep"
    /\ sg_pc = "run"
    /\ sg_input \in StationInputs
    /\ sg_radius \in Radii
    /\ sg_min_overlap \in GriddingMinOverlaps
    /\ sg_records = SortByGoodCount(sg_input)
    /\ sg_region = 1
    /\ sg_subbox = 1
    /\ sg_n_empty = 0
    /\ sg_boxes = <<>>
    /\ sg_cell = <<>>
    /\ sg_contributors = <<>>
    /\ sg_raw = <<>>
    /\ sg_contributed = <<>>
    /\ sg_calls = <<>>

\* The subbox to do next and its contributors (lines 112-128).
GridSubbox == gridsub[sg_region].subboxes[sg_subbox]

GridContributors ==
    LET centre == SnappedCentre(GridSubbox)
    IN  incircle(sg_records, ArcOf(sg_radius), centre[1], centre[2])

\* Lines 107-112 and 205-216: on to the next subbox, or the next region.
GridAdvance(empty) ==
    IF sg_subbox < Len(gridsub[sg_region].subboxes)
    THEN /\ sg_subbox' = sg_subbox + 1
         /\ sg_region' = sg_region
         /\ sg_n_empty' = sg_n_empty + empty
    ELSE /\ sg_subbox' = 1
         /\ sg_region' = sg_region + 1
         /\ sg_n_empty' = 0

\* (A variant that gives the empty cell the best quality score.)
EmptyCell_scored(subbox, max_months) ==
    [series |-> [i \in 1..max_months |-> MISSING], box |-> subbox.box,
     stations |-> 0, station_months |-> 0, d |-> 0]

\* Lines 131-140: the cell of a subbox without contributors.
EmptyCell(subbox, max_months) ==
    [series |-> [i \in 1..max_months |-> MISSING], box |-> subbox.box,
     stations |-> 0, station_months |-> 0, d |-> MISSING]

\* Lines 133-143: no station in range; an empty cell is yielded.
GridEmptyCell ==
    /\ sg_pc = "run"
    /\ sg_region <= Len(gridsub)
    /\ GridContributors = <<>>
    /\ sg_cell' = EmptyCell(GridSubbox, monm)
    /\ sg_boxes' = Append(sg_boxes, GridSubbox.box)
    /\ sg_contributors' = <<>>
    /\ sg_raw' = [i \in 1..monm |-> MISSING]
    /\ sg_contributed' = <<>>
    /\ sg_calls' = <<>>
    /\ GridAdvance(1)
    /\ UNCHANGED <<sg_pc, sg_input, sg_radius, sg_min_overlap, sg_records,
                   anom_policy, restOfGrid>>

\* Lines 145-204: the stations in range are combined and the cell yielded.
GridCell ==
    /\ sg_pc = "run"
    /\ sg_region <= Len(gridsub)
    /\ GridContributors # <<>>
    /\ \E contributors \in {GridContributors} :
       \E st \in {GridCombineCell(contributors, monm, sg_min_overlap)} :
          /\ sg_cell' = [series |-> Anomalize(st.series, anom_policy),
                         box |-> GridSubbox.box,
                         stations |-> st.total_stations,
                         station_months |-> st.total_good_months,
                         d |-> (sg_radius * (1000 - st.max_weight)) \div 1000]
          /\ sg_contributors' = contributors
          /\ sg_raw' = st.series
          /\ sg_contributed' = st.contributed
          /\ sg_calls' = st.calls
    /\ sg_boxes' = Append(sg_boxes, GridSubbox.box)
    /\ GridAdvance(0)
    /\ UNCHANGED <<sg_pc, sg_input, sg_radius, sg_min_overlap, sg_records,
                   anom_policy, restOfGrid>>

\* Line 217: all regions done; the generator returns.
GridReturn ==
    /\ sg_pc = "run"
    /\ sg_region > Len(gridsub)
    /\ sg_pc' = "done"
    /\ UNCHANGED <<sg_input, sg_radius, sg_min_overlap, sg_records, sg_region,
                   sg_subbox, sg_n_empty, sg_boxes, sg_cell, sg_contributors,
                   sg_raw, sg_contributed, sg_calls, anom_policy, restOfGrid>>

GridNext == GridEmptyCell \/ GridCell \/ GridReturn

SpecGrid == GridInit /\ [][GridNext]_vars

(***************************************************************************)
(* C3.  A cell with exactly two stations within the combining radius whose *)
(* valid months are disjoint.  As claimed: both are merged, stations = 2   *)
(* and the series before anomalizing is valid at exactly the union of      *)
(* their valid months.                                                     *)
(***************************************************************************)
\* The months of the timeline at which a contributor holds data.
MonthsOf(c) == ValidMonths(Placed(c.record, monm))

TwoDisjointStations ==
    /\ sg_pc # "idle"
    /\ Len(sg_contributors) = 2
    /\ MonthsOf(sg_contributors[1]) \cap MonthsOf(sg_contributors[2]) = {}

C3_DisjointStationsBothMerged ==
    TwoDisjointStations =>
        /\ sg_cell.stations = 2
        /\ ValidMonths(sg_raw) =
              MonthsOf(sg_contributors[1]) \cup MonthsOf(sg_contributors[2])

(***************************************************************************)
(* C3, amended.  With a positive gridding_min_overlap the overlap of the   *)
(* two stations, 0, is insufficient and the combiner fails closed: the     *)
(* second station is not counted (stations = 1, station_months that of the *)
(* seed), the series before anomalizing is the seed's own and the second   *)
(* station is logged with weight 0 and twelve zeros.                       *)
(***************************************************************************)
C3_DisjointStationDropped ==
    TwoDisjointStations /\ sg_min_overlap >= 1 =>
        /\ sg_cell.stations = 1
        /\ sg_cell.station_months = sg_contributors[1].record.good_count
        /\ sg_raw = Placed(sg_contributors[1].record, monm)
        /\ ValidMonths(sg_raw) = MonthsOf(sg_contributors[1])
        /\ sg_contributed[2] = <<sg_contributors[2].record.uid, 0, ZeroDigits>>

C3_DisjointPairSeen ==
    /\ TwoDisjointStations
    /\ sg_min_overlap >= 1
    /\ sg_cell.stations = 1
    /\ Len(sg_calls) = 1

(***************************************************************************)
(* C6.  iter_subbox_grid yields one cell per subbox, in the order of the   *)
(* geometry; the cell of a subbox with no station within the radius has an *)
(* all-MISSING series of max_months months, stations = 0,                  *)
(* station_months = 0 and d = MISSING, and the run goes on to the next     *)
(* subbox.                                                                 *)
(***************************************************************************)
RECURSIVE Flatten(_)
Flatten(ss) == IF ss = <<>> THEN <<>> ELSE ss[1] \o Flatten(Tail(ss))

\* The subboxes in the traversal order of the geometry.
AllSubboxes == Flatten([r \in 1..Len(gridsub) |-> gridsub[r].subboxes])

\* No station of the input lies within the radius of the subbox.
NoStationNear(subbox) ==
    LET centre == SnappedCentre(subbox)
    IN  \A u \in 1..Len(sg_input) :
            ~InCircle(sg_input[u], ArcOf(sg_radius), centre[1], centre[2])

C6_OneCellPerSubbox ==
    sg_pc # "idle" =>
        LET n == Len(sg_boxes)
        IN  /\ n <= Len(AllSubboxes)
            /\ sg_boxes = [k \in 1..n |-> AllSubboxes[k].box]
            /\ sg_pc = "done" => n = Len(AllSubboxes)
            /\ sg_pc = "run" /\ sg_region <= Len(gridsub) =>
                  GridSubbox = AllSubboxes[n + 1]
            /\ sg_pc = "run" /\ sg_region > Len(gridsub) => n = Len(AllSubboxes)
            /\ n > 0 =>
                  /\ sg_cell.box = AllSubboxes[n].box
                  /\ Len(sg_cell.series) = monm
                  /\ NoStationNear(AllSubboxes[n]) =>
                        /\ \A i \in 1..monm : sg_cell.series[i] = MISSING
                        /\ sg_cell.stations = 0
                        /\ sg_cell.station_months = 0
                        /\ sg_cell.d = MISSING

\* An empty first cell, with stations in the input, and the run going on.
C6_EmptyCellThenOn ==
    /\ sg_pc = "run"
    /\ Len(sg_boxes) = 1
    /\ Len(sg_input) > 0
    /\ sg_cell.stations = 0
    /\ sg_cell.d = MISSING
    /\ sg_region = 1 /\ sg_subbox = 2

(***************************************************************************)
(* subbox_to_box (step5.py 164-246) and whichbox (249-258).                *)
(*                                                                         *)
(* The geometry eqarea.grid() is not part of the source files: three boxes *)
(* (south, north, west, east) that partition the sphere.  A cell is given  *)
(* with the centre eqarea.centre computes for its box.                     *)
(***************************************************************************)
grid == << <<0, 90, -180, 0>>, <<0, 90, 0, 180>>, <<-90, 0, -180, 180>> >>

CellCentres == {<<45, -90>>, <<0, 0>>, <<-45, 0>>}

\* The cells tried (giss_data.Series): first_year is meta.yrbeg, the series
\* has monm months with data in the first n of them; good_count is n.
\* One more cell, in the first box, has its data in the last months.
CellShapes ==
    {[centre |-> c, first_year |-> 0, good_count |-> n,
      series |-> [i \in 1..monm |-> IF i <= n THEN 100 * n ELSE MISSING]] :
        c \in CellCentres, n \in 0..MaxRecLen}
    \cup
    {[centre |-> <<45, -90>>, first_year |-> 0, good_count |-> MaxRecLen,
      series |-> [i \in 1..monm |-> IF i > monm - MaxRecLen THEN 50 ELSE MISSING]]}

CellInputs ==
    {[u \in 1..Len(shapes) |->
        [uid |-> u, centre |-> shapes[u].centre, first_year |-> shapes[u].first_year,
         good_count |-> shapes[u].good_count, series |-> shapes[u].series]] :
        shapes \in SeqsUpTo(CellShapes, MaxCells)}

\* The values of parameters.subbox_min_valid tried.
SubboxMinValids == {1, 2}

\* meta.yrbeg, as a year of the model
yrbeg == 0

\* whichbox lines 254-258: the (1-based) place in boxes of the first box
\* that contains the centre; 0 stands for the None returned when no box does.
whichbox(boxes, centre) ==
    LET lat == centre[1]
        lon == centre[2]
        has(b) == /\ boxes[b][1] <= lat /\ lat < boxes[b][2]
                  /\ boxes[b][3] <= lon /\ lon < boxes[b][4]
    IN  IF \E b \in 1..Len(boxes) : has(b)
        THEN CHOOSE b \in 1..Len(boxes) : has(b) /\ \A a \in 1..(b - 1) : ~has(a)
        ELSE 0

\* Lines 189-194: contributordict[box], the cells of the box in input order.
ContributorDict(cells, b) ==
    LET keep == {k \in 1..Len(cells) : whichbox(grid, cells[k].centre) = b}
        idx  == SelectIndexes(Len(cells), 1, keep)
    IN  [x \in 1..Len(idx) |-> cells[idx[x]]]

\* Lines 196-205: padded_series(s).
padded_series(cell) ==
    LET offset == 12 * (cell.first_year - yrbeg)
    IN  [i \in 1..monm |->
            IF i > offset /\ i <= offset + Len(cell.series)
            THEN cell.series[i - offset] ELSE MISSING]

\* Line 216: float(valid(a)), in thousandths.
ValidWeights(series) ==
    [i \in 1..Len(series) |-> IF valid(series[i]) THEN 1000 ELSE 0]

\* (A variant without the test of line 224: every cell is combined.)
BoxAddCell_all(st, cell, min_valid) ==
    CHOOSE r \in
        {[st EXCEPT !.series = cmb.series, !.weight = cmb.weight,
                    !.contributed = Append(@, <<cell.uid, 1000, MonthDigits(cmb.months)>>),
                    !.calls = Append(@, cell.uid)] :
         cmb \in {Combine(st.series, st.weight, padded_series(cell),
                          Spread(1000, monm), box_min_overlap)}} : TRUE

\* Lines 223-239: one pass of the loop over contributors[1:].
BoxAddCell(st, cell, min_valid) ==
    IF cell.good_count >= min_valid
    THEN CHOOSE r \in
            {[st EXCEPT !.series = cmb.series, !.weight = cmb.weight,
                        !.contributed = Append(@, <<cell.uid, 1000,
                                                    MonthDigits(cmb.months)>>),
                        !.calls = Append(@, cell.uid)] :
             cmb \in {Combine(st.series, st.weight, padded_series(cell),
                              Spread(1000, monm), box_min_overlap)}} : TRUE
    ELSE [st EXCEPT !.contributed = Append(@, <<cell.uid, 0, ZeroDigits>>)]

RECURSIVE BoxAddCells(_, _, _, _)
BoxAddCells(st, contributors, k, min_valid) ==
    IF k > Len(contributors) THEN st
    ELSE CHOOSE r \in
            {BoxAddCells(nxt, contributors, k + 1, min_valid) :
                nxt \in {BoxAddCell(st, contributors[k], min_valid)}} : TRUE

\* Lines 214-239: the box's state after all its contributors (sorted).
BoxCombine(contributors, min_valid) ==
    LET best       == contributors[1]
        box_series == padded_series(best)
        st0 == [series |-> box_series,
                weight |-> ValidWeights(box_series),
                contributed |-> << <<best.uid, 1000, UsedMonths(box_series)>> >>,
                calls |-> <<>>]
    IN  BoxAddCells(st0, contributors, 2, min_valid)

(***************************************************************************)
(* Specification SpecBox: subbox_to_box over the boxes of grid.  One       *)
(* action is one resumption of the generator; the first one also           *)
(* partitions the cells (lines 185-194).                                   *)
(***************************************************************************)
BoxInit ==
    /\ IdleSort
    /\ IdleZonav
    /\ IdleGrid
    /\ IdleAnnzon
    /\ anom_policy = "keep"
    /\ sb_pc = "run"
    /\ sb_cells \in CellInputs
    /\ sb_min_valid \in SubboxMinValids
    /\ sb_boxes = <<>>
    /\ sb_last = <<>>
    /\ sb_contributors = <<>>
    /\ sb_raw = <<>>
    /\ sb_contributed = <<>>
    /\ sb_calls = <<>>

\* Lines 210-212: the contributors of the box to do next, sorted.
BoxContributors ==
    SortByGoodCount(ContributorDict(sb_cells, Len(sb_boxes) + 1))

\* Lines 209-246: the next box is combined, anomalized and yielded.
BoxYield ==
    /\ sb_pc = "run"
    /\ Len(sb_boxes) < Len(grid)
    /\ BoxContributors # <<>>
    /\ \E contributors \in {BoxContributors} :
       \E st \in {BoxCombine(contributors, sb_min_valid)} :
       \E box_series \in {Anomalize(st.series, anom_policy)} :
          /\ sb_last' = <<box_series, st.weight, CountValid(box_series),
                          grid[Len(sb_boxes) + 1]>>
          /\ sb_contributors' = contributors
          /\ sb_raw' = [series |-> st.series, weight |-> st.weight]
          /\ sb_contributed' = st.contributed
          /\ sb_calls' = st.calls
    /\ sb_boxes' = Append(sb_boxes, grid[Len(sb_boxes) + 1])
    /\ UNCHANGED <<sb_pc, sb_cells, sb_min_valid, anom_policy, restOfBox>>

\* Line 214 for a box without cells: contributors[0] raises IndexError.
BoxRaise ==
    /\ sb_pc = "run"
    /\ Len(sb_boxes) < Len(grid)
    /\ BoxContributors = <<>>
    /\ sb_pc' = "raised"
    /\ UNCHANGED <<sb_cells, sb_min_valid, sb_boxes, sb_last, sb_contributors,
                   sb_raw, sb_contributed, sb_calls, anom_policy, restOfBox>>

\* The loop over the boxes is over: the generator returns.
BoxReturn ==
    /\ sb_pc = "run"
    /\ Len(sb_boxes) = Len(grid)
    /\ sb_pc' = "done"
    /\ UNCHANGED <<sb_cells, sb_min_valid, sb_boxes, sb_last, sb_contributors,
                   sb_raw, sb_contributed, sb_calls, anom_policy, restOfBox>>

BoxNext == BoxYield \/ BoxRaise \/ BoxReturn

SpecBox == BoxInit /\ [][BoxNext]_vars

(***************************************************************************)
(* C7.  For any collection of input cells subbox_to_box yields one         *)
(* (series, weight, ngood, box) quadruple for each box of the grid, in the *)
(* order of the grid, each with a series of meta.monm months, also when    *)
(* some box receives no cell; every cell goes to the first box whose       *)
(* bounds contain its centre.                                              *)
(***************************************************************************)
C7_OneQuadruplePerBox ==
    sb_pc # "idle" =>
        /\ sb_pc # "raised"
        /\ sb_boxes = SubSeq(grid, 1, Len(sb_boxes))
        /\ sb_pc = "done" => sb_boxes = grid
        /\ sb_boxes # <<>> =>
              /\ Len(sb_last[1]) = monm
              /\ sb_last[4] = grid[Len(sb_boxes)]
              /\ \A k \in 1..Len(sb_contributors) :
                    LET c == sb_contributors[k].centre
                        b == sb_last[4]
                    IN  b[1] <= c[1] /\ c[1] < b[2] /\ b[3] <= c[2] /\ c[2] < b[4]

(***************************************************************************)
(* C10.  In subbox_to_box a cell that is not the seed and whose            *)
(* valid-month count is below subbox_min_valid is never handed to the      *)
(* combiner: the box series and weight are what the other cells alone      *)
(* give; it is logged with weight 0 and twelve zeros, without an error.    *)
(* Every other cell that is not the seed is handed to the combiner exactly *)
(* once, with weight 1.0, in descending order of valid-month count, cells  *)
(* of equal count in their input order.                                    *)
(***************************************************************************)
\* The cells of the last box after the seed, as sorted.
C10_Rest == SubSeq(sb_contributors, 2, Len(sb_contributors))

\* The uids among them with a count at or above the threshold, in order.
C10_Combined ==
    LET keep == {k \in 1..Len(C10_Rest) : C10_Rest[k].good_count >= sb_min_valid}
        idx  == SelectIndexes(Len(C10_Rest), 1, keep)
    IN  [x \in 1..Len(idx) |-> C10_Rest[idx[x]]]

\* The series and weight that the seed and the given cells yield, each cell
\* combined with weight 1.0.
RECURSIVE C10_Fold(_, _)
C10_Fold(acc, cells) ==
    IF cells = <<>> THEN acc
    ELSE CHOOSE r \in
            {C10_Fold([series |-> cmb.series, weight |-> cmb.weight], Tail(cells)) :
                cmb \in {Combine(acc.series, acc.weight, padded_series(cells[1]),
                                 Spread(1000, monm), box_min_overlap)}} : TRUE

C10_LowCellsSkipped ==
    sb_pc # "idle" /\ sb_boxes # <<>> =>
        \* the order: descending counts, equal counts in input order
        /\ \A k \in 1..(Len(sb_contributors) - 1) :
              \/ sb_contributors[k].good_count > sb_contributors[k + 1].good_count
              \/ /\ sb_contributors[k].good_count = sb_contributors[k + 1].good_count
                 /\ sb_contributors[k].uid < sb_contributors[k + 1].uid
        \* the calls of the combiner
        /\ sb_calls = [x \in 1..Len(C10_Combined) |-> C10_Combined[x].uid]
        \* the box series and weight
        /\ sb_raw = C10_Fold([series |-> padded_series(sb_contributors[1]),
                              weight |-> ValidWeights(padded_series(sb_contributors[1]))],
                             C10_Combined)
        \* the audit list
        /\ Len(sb_contributed) = Len(sb_contributors)
        /\ \A k \in 2..Len(sb_contributors) :
              /\ sb_contributed[k][1] = sb_contributors[k].uid
              /\ sb_contributors[k].good_count < sb_min_valid =>
                    sb_contributed[k] = <<sb_contributors[k].uid, 0, ZeroDigits>>
              /\ sb_contributors[k].good_count >= sb_min_valid =>
                    sb_contributed[k][2] = 1000

\* A box of three cells: the seed, one cell combined, one cell skipped.
C10_OneCombinedOneSkipped ==
    /\ sb_pc = "run"
    /\ Len(sb_contributors) = 3
    /\ Len(sb_calls) = 1
    /\ sb_contributors[3].good_count < sb_min_valid
    /\ sb_contributed[3] = <<sb_contributors[3].uid, 0, ZeroDigits>>

(***************************************************************************)
(* annzon (step5.py 433-540).  Zones keep the numbers 0..15 of the source; *)
(* years and months are counted from 1.                                    *)
(***************************************************************************)
\* Line 447.
nzones == 16

\* Line 449.
iyrs == monm \div 12

\* The values of parameters.zone_annual_min_months tried.
AnnualMinMonths == {1, 6}

\* The values of the alternate argument tried (global: 0 for a false value).
Alternates == [global : {0, 1, 2}, hemi : BOOLEAN]

\* The months with data in a year of a zoned average, for the threshold t:
\* all twelve, the first t, the first t - 1, the last t.
ShapeMonths(shape, t) ==
    CASE shape = 0 -> 1..12
      [] shape = 1 -> 1..t
      [] shape = 2 -> 1..(t - 1)
      [] shape = 3 -> (13 - t)..12

\* The zones whose shape is varied (those the alternate estimators read),
\* and the shapes tried for the first year of each.
VaryingZones == {3, 4, 8, 9, 10}

ZoneShapes(z) == IF z \in {8, 9} THEN 0..3 ELSE {0, 2}

\* The zoned averages zonav hands over: 16 (data, weight) pairs of monm
\* months.  Zone z has the shape pat[z] in the first year, the next shape in
\* the next year; the zones not varied have data in every month.
ZonedAverages(pat, t) ==
    [z \in 0..(nzones - 1) |->
        LET first == IF z \in VaryingZones THEN pat[z] ELSE 0
            tdata == [i \in 1..monm |->
                        LET iy == (i - 1) \div 12
                            m  == ((i - 1) % 12) + 1
                        IN  IF m \in ShapeMonths((first + iy) % 4, t)
                            THEN 100 * (z + 1) + 10 * m + iy
                            ELSE MISSING]
        IN  [data |-> tdata,
             wt   |-> [i \in 1..monm |-> IF valid(tdata[i]) THEN 1000 ELSE 0]]]

\* Lines 466 and 468: zip(star [iter(tdata)] star 12), blocks of 12.
Grouper(series) ==
    [iy \in 1..(Len(series) \div 12) |-> [m \in 1..12 |-> series[12 * (iy - 1) + m]]]

\* (A variant of lines 473-482 that wants more than the threshold.)
AnnualMean_above(block, min_months) ==
    LET months == {m \in 1..12 : block[m] # MISSING}
        mon    == Cardinality(months)
        anniy  == SumAt(block, months)
    IN  IF mon > min_months THEN anniy \div mon ELSE MISSING

\* Lines 473-482: the annual mean of one block of 12 months; ann[zone][iy]
\* keeps the MISSING of line 457 when the months are too few.
AnnualMean(block, min_months) ==
    LET months == {m \in 1..12 : block[m] # MISSING}
        mon    == Cardinality(months)
        anniy  == SumAt(block, months)
    IN  IF mon >= min_months THEN anniy \div mon ELSE MISSING

\* (A variant with the zones of the two modes exchanged.)
GlobalZones_swapped(glb) == IF glb = 1 THEN <<8, 3, 4, 10>> ELSE <<8, 9, 9, 10>>

\* Lines 490-493 and 494.
GlobalZones(glb) == IF glb = 1 THEN <<8, 9, 9, 10>> ELSE <<8, 3, 4, 10>>

wtsp == <<3, 2, 2, 3>>

\* (A variant of the loop that stores what it has summed when it breaks.)
RECURSIVE GlobalBlend_partial(_, _, _)
GlobalBlend_partial(vals, k, glob) ==
    IF k > Len(vals) THEN glob \div 10
    ELSE IF vals[k] = MISSING THEN (IF k = 1 THEN MISSING ELSE glob \div 10)
    ELSE GlobalBlend_partial(vals, k + 1, glob + vals[k] * wtsp[k])

\* Lines 496-504 and 508-514: the for ... else loop over the four zones;
\* a break leaves the MISSING stored before the loop.
RECURSIVE GlobalBlend(_, _, _)
GlobalBlend(vals, k, glob) ==
    IF k > Len(vals) THEN glob \div 10
    ELSE IF vals[k] = MISSING THEN MISSING
    ELSE GlobalBlend(vals, k + 1, glob + vals[k] * wtsp[k])

\* Lines 524-527 and 531-538: 0.4 and 0.6 of two values, if both are there.
HemiBlend(a, b) ==
    IF a # MISSING /\ b # MISSING THEN (4 * a + 6 * b) \div 10 ELSE MISSING

(***************************************************************************)
(* Specification SpecAnnzon: one call of annzon, stage by stage.           *)
(***************************************************************************)
AnnzonInit ==
    /\ IdleSort
    /\ IdleZonav
    /\ IdleGrid
    /\ IdleBox
    /\ anom_policy = "keep"
    /\ az_pc = "collect"
    /\ az_min_months \in AnnualMinMonths
    /\ az_alternate \in Alternates
    /\ \E pat \in [VaryingZones -> 0..3] :
          /\ \A z \in VaryingZones : pat[z] \in ZoneShapes(z)
          /\ az_zoned = ZonedAverages(pat, az_min_months)
    \* lines 455-457
    /\ az_data = [z \in 0..(nzones - 1) |-> <<>>]
    /\ az_wt = [z \in 0..(nzones - 1) |-> <<>>]
    /\ az_ann = [z \in 0..(nzones - 1) |-> [iy \in 1..iyrs |-> MISSING]]

\* Lines 460-468: collect the zonal means.
AnnzonCollect ==
    /\ az_pc = "collect"
    /\ az_data' = [z \in 0..(nzones - 1) |-> Grouper(az_zoned[z].data)]
    /\ az_wt' = [z \in 0..(nzones - 1) |-> Grouper(az_zoned[z].wt)]
    /\ az_pc' = "annual"
    /\ UNCHANGED <<az_zoned, az_min_months, az_alternate, az_ann, restOfAnnzon>>

\* Lines 471-482: the annual means.
AnnzonAnnual ==
    /\ az_pc = "annual"
    /\ az_ann' = [z \in 0..(nzones - 1) |->
                    [iy \in 1..iyrs |-> AnnualMean(az_data[z][iy], az_min_months)]]
    /\ az_pc' = "global"
    /\ UNCHANGED <<az_zoned, az_min_months, az_alternate, az_data, az_wt,
                   restOfAnnzon>>

\* Lines 485-514: the alternate global mean, in ann[-1] and data[-1].
AnnzonGlobal ==
    /\ az_pc = "global"
    /\ IF az_alternate.global # 0
       THEN LET zone == GlobalZones(az_alternate.global)
            IN  /\ az_ann' = [az_ann EXCEPT ![nzones - 1] =
                      [iy \in 1..iyrs |->
                          GlobalBlend([k \in 1..4 |-> az_ann[zone[k]][iy]], 1, 0)]]
                /\ az_data' = [az_data EXCEPT ![nzones - 1] =
                      [iy \in 1..iyrs |-> [m \in 1..12 |->
                          GlobalBlend([k \in 1..4 |-> az_data[zone[k]][iy][m]], 1, 0)]]]
       ELSE UNCHANGED <<az_ann, az_data>>
    /\ az_pc' = "hemi"
    /\ UNCHANGED <<az_zoned, az_min_months, az_alternate, az_wt, restOfAnnzon>>

\* Lines 517-538: the alternate hemispheric means, in zones 11 and 12.
AnnzonHemi ==
    /\ az_pc = "hemi"
    /\ IF az_alternate.hemi
       THEN /\ az_ann' = [z \in 0..(nzones - 1) |->
                  IF z \in {11, 12}
                  THEN [iy \in 1..iyrs |->
                          HemiBlend(az_ann[(z - 11) + 3][iy],
                                    az_ann[2 * (z - 11) + 8][iy])]
                  ELSE az_ann[z]]
            /\ az_data' = [z \in 0..(nzones - 1) |->
                  IF z \in {11, 12}
                  THEN [iy \in 1..iyrs |-> [m \in 1..12 |->
                          HemiBlend(az_data[(z - 11) + 3][iy][m],
                                    az_data[2 * (z - 11) + 8][iy][m])]]
                  ELSE az_data[z]]
       ELSE UNCHANGED <<az_ann, az_data>>
    /\ az_pc' = "return"
    /\ UNCHANGED <<az_zoned, az_min_months, az_alternate, az_wt, restOfAnnzon>>

\* Line 540.
AnnzonReturn ==
    /\ az_pc = "return"
    /\ az_pc' = "done"
    /\ UNCHANGED <<az_zoned, az_min_months, az_alternate, az_data, az_wt, az_ann,
                   restOfAnnzon>>

AnnzonNext ==
    AnnzonCollect \/ AnnzonAnnual \/ AnnzonGlobal \/ AnnzonHemi \/ AnnzonReturn

SpecAnnzon == AnnzonInit /\ [][AnnzonNext]_vars

(***************************************************************************)
(* C4.  In the result of annzon, for every zone whose annual series no     *)
(* alternate estimator overwrites and every year, the annual value is      *)
(* MISSING when fewer than zone_annual_min_months of the year's 12 months  *)
(* are not MISSING, and otherwise the sum of the months that are not       *)
(* MISSING divided by their number.                                        *)
(***************************************************************************)
\* The zones whose annual series an alternate estimator overwrites.
Overwritten ==
    (IF az_alternate.global # 0 THEN {nzones - 1} ELSE {}) \cup
    (IF az_alternate.hemi THEN {11, 12} ELSE {})

\* The months of year iy of the zoned average z that are not MISSING, as
\* places in the series given.
C4_ValidPlaces(z, iy) ==
    {i \in (12 * (iy - 1) + 1)..(12 * iy) : az_zoned[z].data[i] # MISSING}

C4_AnnualMeanThreshold ==
    az_pc = "done" =>
        \A z \in (0..(nzones - 1)) \ Overwritten : \A iy \in 1..iyrs :
            LET places == C4_ValidPlaces(z, iy)
            IN  IF Cardinality(places) < az_min_months
                THEN az_ann[z][iy] = MISSING
                ELSE az_ann[z][iy] =
                        SumAt(az_zoned[z].data, places) \div Cardinality(places)

\* One zone has a year one month short of the threshold, another a year
\* exactly at the threshold.
C4_BelowAndAtThreshold ==
    /\ az_pc = "done"
    /\ \E z \in (0..(nzones - 1)) \ Overwritten : \E iy \in 1..iyrs :
          /\ Cardinality(C4_ValidPlaces(z, iy)) = az_min_months - 1
          /\ az_ann[z][iy] = MISSING
    /\ \E z \in (0..(nzones - 1)) \ Overwritten : \E iy \in 1..iyrs :
          /\ Cardinality(C4_ValidPlaces(z, iy)) = az_min_months
          /\ az_ann[z][iy] # MISSING

(***************************************************************************)
(* C5.  With the alternate global estimator on (mode 1: zones 8, 9, 9, 10; *)
(* mode 2: zones 8, 3, 4, 10; weights 3, 2, 2, 3 times 0.1), the annual    *)
(* value of the last zone is, for every year, MISSING if the annual value  *)
(* of any of the four zones is MISSING and otherwise the weighted blend of *)
(* all four; the same per month for the monthly values.  A blend of only   *)
(* some of the four is never stored.                                       *)
(***************************************************************************)
C5_Zones == IF az_alternate.global = 1 THEN <<8, 9, 9, 10>> ELSE <<8, 3, 4, 10>>

C5_Full(vals) ==
    IF \E k \in 1..4 : vals[k] = MISSING THEN MISSING
    ELSE (3 * vals[1] + 2 * vals[2] + 2 * vals[3] + 3 * vals[4]) \div 10

C5_GlobalBlendAllOrNothing ==
    az_pc = "done" /\ az_alternate.global # 0 =>
        \A iy \in 1..iyrs :
            /\ az_ann[nzones - 1][iy] =
                  C5_Full([k \in 1..4 |-> az_ann[C5_Zones[k]][iy]])
            /\ \A m \in 1..12 :
                  az_data[nzones - 1][iy][m] =
                      C5_Full([k \in 1..4 |->
                                  az_zoned[C5_Zones[k]].data[12 * (iy - 1) + m]])

\* In some year the annual value of exactly one of the zones blended is
\* MISSING, and not the first one.
C5_OneZoneMissing ==
    /\ az_pc = "done"
    /\ az_alternate.global # 0
    /\ \E iy \in 1..iyrs :
          /\ az_ann[C5_Zones[1]][iy] # MISSING
          /\ Cardinality({z \in Range(C5_Zones) : az_ann[z][iy] = MISSING}) = 1
          /\ az_ann[nzones - 1][iy] = MISSING

(***************************************************************************)
(* C11.  In the audit list of a stage that keeps one (here the list of     *)
(* subbox_to_box; iter_subbox_grid keeps the other), a contributor that    *)
(* the combiner dropped for insufficient overlap, so that the merge        *)
(* reports no newly populated calendar month, is recorded with weight zero *)
(* and twelve zeros.                                                       *)
(***************************************************************************)
C11_DroppedLoggedWithZeroWeight ==
    sb_pc # "idle" /\ sb_boxes # <<>> =>
        \A k \in 2..Len(sb_contributed) :
            sb_contributed[k][3] = ZeroDigits =>
                sb_contributed[k] = <<sb_contributors[k].uid, 0, ZeroDigits>>

\* The same for the audit list of iter_subbox_grid, which holds.
C11_GridDroppedLoggedWithZeroWeight ==
    sg_pc # "idle" /\ sg_contributed # <<>> =>
        \A k \in 2..Len(sg_contributed) :
            SumSeq(sg_calls[k - 1].months) = 0 =>
                sg_contributed[k] = <<sg_contributors[k].record.uid, 0, ZeroDigits>>

(***************************************************************************)
(* C12.  In iter_subbox_grid, for a cell with a station in range, the seed *)
(* is the station in range with the greatest good_count, the earliest of   *)
(* the input among equals; the other stations in range are handed to the   *)
(* combiner once each, in non-increasing order of good_count, equals in    *)
(* the order of the input.                                                 *)
(***************************************************************************)
\* The places in the input of the stations in range of the last cell.
C12_InRange ==
    LET centre == SnappedCentre(AllSubboxes[Len(sg_boxes)])
    IN  {u \in 1..Len(sg_input) :
            InCircle(sg_input[u], ArcOf(sg_radius), centre[1], centre[2])}

\* Station u of the input goes before station v.
C12_Before(u, v) ==
    \/ sg_input[u].good_count > sg_input[v].good_count
    \/ sg_input[u].good_count = sg_input[v].good_count /\ u < v

C13_Added == {k \in 1..Len(sg_calls) : SumSeq(sg_calls[k].months) > 0}

RECURSIVE C13_Reported(_)
C13_Reported(ks) ==
    IF ks = {} THEN 0
    ELSE LET k == CHOOSE x \in ks : TRUE
         IN  SumSeq(sg_calls[k].months) + C13_Reported(ks \ {k})

C13_StationsAndMonthsCounted ==
    sg_pc # "idle" /\ sg_contributors # <<>> =>
        /\ sg_cell.stations = 1 + Cardinality(C13_Added)
        /\ sg_cell.station_months =
              sg_contributors[1].record.good_count + C13_Reported(C13_Added)
        /\ \A k \in (1..Len(sg_calls)) \ C13_Added :
              sg_contributed[k + 1] = <<sg_calls[k].uid, 0, ZeroDigits>>

\* A cell of two stations in range whose second merge added nothing.
C13_MergeAddedNothing ==
    /\ sg_pc = "run"
    /\ Len(sg_contributors) = 2
    /\ C13_Added = {}
    /\ sg_cell.stations = 1
    /\ sg_cell.station_months = sg_contributors[1].record.good_count
    /\ sg_contributors[2].record.good_count > 0

(***************************************************************************)
(* C14.  For a cell of iter_subbox_grid that is not empty, the quality     *)
(* score is d = radius x (1 - max_weight), max_weight being the largest    *)
(* proximity weight over every station within the radius: the seed and     *)
(* every station handed to the combiner, whether its merge added data or   *)
(* not.                                                                    *)
(***************************************************************************)
\* The largest weight among the contributors at the places ks.
C14_MaxWeight(ks) ==
    CHOOSE w \in {sg_contributors[k].wt : k \in ks} :
        \A k \in ks : sg_contributors[k].wt <= w

C14_Score(max_weight) == (sg_radius * (1000 - max_weight)) \div 1000

C14_ScoreOverAllInRange ==
    sg_pc # "idle" /\ sg_contributors # <<>> =>
        sg_cell.d = C14_Score(C14_MaxWeight(1..Len(sg_contributors)))

(***************************************************************************)
(* C14, amended.  max_weight is the largest proximity weight over the seed *)
(* and the stations whose merge reported a newly populated calendar month; *)
(* a station whose merge added nothing leaves the score as it was, also    *)
(* when it is nearer to the centre than every station that counted.        *)
(***************************************************************************)
C14_ScoreOverStationsThatAdded ==
    sg_pc # "idle" /\ sg_contributors # <<>> =>
        sg_cell.d = C14_Score(C14_MaxWeight({1} \cup {k + 1 : k \in C13_Added}))

\* The station nearest to the centre added nothing: the score is the seed's.
C14_NearestAddedNothing ==
    /\ sg_pc = "run"
    /\ Len(sg_contributors) = 2
    /\ sg_contributors[2].wt > sg_contributors[1].wt
    /\ SumSeq(sg_calls[1].months) = 0
    /\ sg_cell.d = C14_Score(sg_contributors[1].wt)
    /\ sg_cell.d > C14_Score(sg_contributors[2].wt)

(***************************************************************************)
(* C15.  For each of the 8 compound zones zonav builds (zone 8 = bands     *)
(* {0,1,2}, 9 = {3,4}, 10 = {5,6,7}, 11 = {1,2}, 12 = {5,6},               *)
(* 13 = {0,1,2,3}, 14 = {4,5,6,7}, 15 = {0..7}) the bands used, the seed   *)
(* and every band handed to the combiner, are exactly the members of the   *)
(* zone, each used once, and no other band is combined; building a         *)
(* compound zone leaves the band series and weights already yielded as     *)
(* they were.                                                              *)
(***************************************************************************)
\* The members of the compound zones 8..15, in that order.
C15_Members ==
    <<{0, 1, 2}, {3, 4}, {5, 6, 7}, {1, 2}, {5, 6}, {0, 1, 2, 3}, {4, 5, 6, 7},
      {0, 1, 2, 3, 4, 5, 6, 7}>>

\* A step that builds a compound zone: the zone built is zv_zone of the
\* state it leads to, counted from 1.
C15_ZoneStep ==
    zv_pc' = "zones" /\ zv_zone' = zv_zone + 1 =>
        /\ zv_yielded' = bands + zv_zone'
        /\ {zv_seed'} \cup Range(zv_combined') = C15_Members[zv_zone']
        /\ Len(zv_combined') = Cardinality(C15_Members[zv_zone']) - 1
        /\ zv_seed' \notin Range(zv_combined')
        /\ zv_avg' = zv_avg
        /\ zv_wt' = zv_wt

C15_ZoneUsesItsMembers == [][C15_ZoneStep]_vars

\* The global zone has been built from a seed that is not band 0, with the
\* seven other bands combined.
C15_GlobalZoneBuilt ==
    /\ zv_pc = "zones"
    /\ zv_zone = 8
    /\ zv_seed # 0
    /\ Len(zv_combined) = 7

(***************************************************************************)
(* C16.  In the result of annzon with the alternate global estimator on,   *)
(* the annual and the monthly values of the last zone agree with the rule  *)
(* of the annual mean: for every year, if the global annual value is not   *)
(* MISSING then at least zone_annual_min_months of the 12 global monthly   *)
(* values of the year are not MISSING.                                     *)
(***************************************************************************)
\* The months of year iy in which the global monthly value is not MISSING.
C16_GlobalMonths(iy) == {m \in 1..12 : az_data[nzones - 1][iy][m] # MISSING}

C16_GlobalAnnualHasItsMonths ==
    az_pc = "done" /\ az_alternate.global # 0 =>
        \A iy \in 1..iyrs :
            az_ann[nzones - 1][iy] # MISSING =>
                Cardinality(C16_GlobalMonths(iy)) >= az_min_months

(***************************************************************************)
(* C16, amended.  The global annual value is blended from the annual       *)
(* values of the zones, not from the global monthly values: it is not      *)
(* MISSING exactly when each of the zones blended has, on its own, at      *)
(* least zone_annual_min_months months of the year that are not MISSING.   *)
(* The global monthly value of a month is not MISSING exactly when every   *)
(* zone blended has that month; the number of such months can be below the *)
(* threshold, even zero, in a year whose global annual value is there.     *)
(***************************************************************************)
\* The months of year iy that zone z was given with data.
C16_ZoneMonths(z, iy) ==
    {m \in 1..12 : az_zoned[z].data[12 * (iy - 1) + m] # MISSING}

C16_GlobalAnnualFromZoneAnnuals ==
    az_pc = "done" /\ az_alternate.global # 0 =>
        \A iy \in 1..iyrs :
            /\ az_ann[nzones - 1][iy] # MISSING <=>
                  \A z \in Range(C5_Zones) :
                      Cardinality(C16_ZoneMonths(z, iy)) >= az_min_months
            /\ C16_GlobalMonths(iy) =
                  {m \in 1..12 : \A z \in Range(C5_Zones) : m \in C16_ZoneMonths(z, iy)}

\* A year with a global annual value and no global monthly value at all.
C16_AnnualWithoutMonths ==
    /\ az_pc = "done"
    /\ az_alternate.global # 0
    /\ \E iy \in 1..iyrs :
          /\ az_ann[nzones - 1][iy] # MISSING
          /\ C16_GlobalMonths(iy) = {}

====
